---------------------------- MODULE Spec2Model ----------------------------
(***************************************************************************)
(* The Editor component of khos-file-editor in its two variants: the       *)
(* remote one (Supabase row store and storage bucket, part_001 lines       *)
(* 1-371) and the local one (useLocalStorage, part_001 lines 373-658).     *)
(*                                                                         *)
(* Every async handler is cut at its awaits: the handler's synchronous     *)
(* head is one action, the service answering a request is one action, and  *)
(* the continuation that runs when the awaited promise settles is one      *)
(* action.  A suspended handler invocation is a record of the set ops.     *)
(***************************************************************************)
EXTENDS Integers, Sequences, FiniteSets, TLC

VARIABLES
    variant,     \* "remote" or "local": which Editor is mounted
    text,        \* useState('')            the textarea's value
    messages,    \* useState / useLocalStorage: the message list
    files,       \* useState / useLocalStorage: the file list
    isLoading,   \* useState(false)
    isSyncing,   \* useState(true), remote variant only
    ops,         \* handler invocations suspended at an await
    dbMessages,  \* remote: rows of table 'messages'
    dbFiles,     \* remote: rows of table 'files'
    blobs,       \* remote: keys held by storage bucket 'files'
    storage,     \* local: window.localStorage, key -> stored list
    nextId,      \* remote: next row id the row store assigns
    nextUuid,    \* next value crypto.randomUUID() returns
    clock,       \* the time stamp source (server now() / new Date())
    ignored,     \* the request the handlers last turned down, "" if none
    bytes,       \* formatFileSize: the argument
    formatted    \* formatFileSize: the returned text, "" before the call

vars == <<variant, text, messages, files, isLoading, isSyncing, ops,
          dbMessages, dbFiles, blobs, storage, nextId, nextUuid, clock,
          ignored, bytes, formatted>>

editorVars == <<variant, text, messages, files, isLoading, isSyncing, ops,
                dbMessages, dbFiles, blobs, storage, nextId, nextUuid, clock,
                ignored>>

(***************************************************************************)
(* Bounds of the model.                                                    *)
(***************************************************************************)
MaxId == 2        \* rows the row store creates; uuids the page draws
MaxOps == 2       \* handler invocations suspended at the same time
MaxClock == 2     \* last tick of the local clock
MaxDelta == 12    \* formatFileSize: how far around each boundary to look

(***************************************************************************)
(* Inputs.                                                                 *)
(***************************************************************************)
Texts == {"", " ", " a b "}

FileA == [name |-> "a.txt", size |-> 1023, type |-> "text/plain", body |-> "QQ=="]

FileB == [name |-> "b", size |-> 1048576, type |-> "", body |-> "Qg=="]

\* e.target.files of the uploads
Batches == {<<FileB>>, <<FileB, FileA>>}

(***************************************************************************)
(* String helpers of the JavaScript runtime.                               *)
(***************************************************************************)
WhiteSpace == {" ", "\t", "\n"}

CharAt(s, i) == SubSeq(s, i, i)

\* a handleSave that tests and stores the text as typed
TrimNothing(s) == s

\* String.prototype.trim
Trim(s) ==
    LET solid == {i \in 1..Len(s) : CharAt(s, i) \notin WhiteSpace}
    IN  IF solid = {} THEN ""
        ELSE LET lo == CHOOSE i \in solid : \A j \in solid : i <= j
                 hi == CHOOSE i \in solid : \A j \in solid : j <= i
             IN  SubSeq(s, lo, hi)

\* s.lastIndexOf(sep, i - 1) + 1: the place of the last sep among the first i
\* characters of s, 0 if there is none
RECURSIVE LastIndexOf(_, _, _)
LastIndexOf(s, sep, i) ==
    IF i = 0 THEN 0
    ELSE IF CharAt(s, i) = sep THEN i
    ELSE LastIndexOf(s, sep, i - 1)

\* s.split(sep).pop(), sep one character
SplitPop(s, sep) == SubSeq(s, LastIndexOf(s, sep, Len(s)) + 1, Len(s))

\* crypto.randomUUID(): the n-th value drawn
Uuid(n) == "u" \o ToString(n)

\* a filter whose test is turned around
FilterKeepId(list, id) == SelectSeq(list, LAMBDA x : x.id = id)

\* prev.filter(x => x.id !== id)
FilterOutId(list, id) == SelectSeq(list, LAMBDA x : x.id # id)

\* an update that puts the new item last
PutLast(item, prev) == prev \o <<item>>

\* [item, ...prev]
Prepend(item, prev) == <<item>> \o prev

\* list.map(x => x.id)
IdsOf(list) == {list[i].id : i \in 1..Len(list)}

\* a delete-all that leaves the list as it is
MessagesKept == messages

\* setMessages([])
NoMessages == <<>>

\* setFiles([])
NoFiles == <<>>

\* a continuation that does not read the error
SucceededAlways(res) == TRUE

\* if (!error), res what the awaited delete answered
Succeeded(res) == res = "ok"

(***************************************************************************)
(* formatFileSize.  bytes / 1024 and bytes / (1024 * 1024) are exact in a  *)
(* double for every file size, so toFixed(1) is the decimal with one       *)
(* fraction digit nearest to the exact quotient, the larger one on a tie.  *)
(***************************************************************************)
KB == 1024

MB == KB * KB

\* (bytes / unit).toFixed(1)
ToFixed1(n, unit) ==
    LET whole  == n \div unit
        rest   == n % unit
        tenths == (20 * rest + unit) \div (2 * unit)
        t      == 10 * whole + tenths
    IN  ToString(t \div 10) \o "." \o ToString(t % 10)

\* a format whose tests take the boundary itself into the smaller unit
formatFileSizeInclusive(n) ==
    IF n <= KB THEN ToString(n) \o " B"
    ELSE IF n <= KB * KB THEN ToFixed1(n, KB) \o " KB"
    ELSE ToFixed1(n, KB * KB) \o " MB"

formatFileSizeRemote(n) ==
    IF n < KB THEN ToString(n) \o " B"
    ELSE IF n < KB * KB THEN ToFixed1(n, KB) \o " KB"
    ELSE ToFixed1(n, KB * KB) \o " MB"

formatFileSizeLocal(n) ==
    IF n < KB THEN ToString(n) \o " B"
    ELSE IF n < KB * KB THEN ToFixed1(n, KB) \o " KB"
    ELSE ToFixed1(n, KB * KB) \o " MB"

formatFileSize(n) ==
    IF variant = "remote" THEN formatFileSizeRemote(n) ELSE formatFileSizeLocal(n)


(***************************************************************************)
(* State shared by the two variants.                                       *)
(***************************************************************************)
\* A suspended handler invocation: the locals the rest of the handler reads
\* (text, id, ids, keys, batch, i, key), the await it is suspended at (pc),
\* what the awaited calls have answered (mres, fres, mrows, frows), and log,
\* the outcomes of the passes of the upload loop that have ended.
NoOp ==
    [kind |-> "", pc |-> "", text |-> "", id |-> "", ids |-> {}, keys |-> {},
     batch |-> <<>>, i |-> 0, key |-> "", mres |-> "none", fres |-> "none",
     mrows |-> <<>>, frows |-> <<>>, log |-> <<>>]

Start(op) ==
    /\ op \notin ops
    /\ Cardinality(ops) < MaxOps
    /\ ops' = ops \cup {op}

Step(op, new) == ops' = (ops \ {op}) \cup {new}

Finish(op) == ops' = ops \ {op}

Frame == UNCHANGED <<variant, bytes, formatted>>

serverVars == <<dbMessages, dbFiles, blobs, nextId, clock>>

(***************************************************************************)
(* useLocalStorage (src/hooks/useLocalStorage, not among the sources):     *)
(* the state starts as the list stored under the key, or the default, and  *)
(* every update is written back under the key at once.                     *)
(***************************************************************************)
MessagesKey == "khos-file-editor-messages"

\* the file list kept under the message list's key
FilesKeyOfMessages == "khos-file-editor-messages"

FilesKey == "khos-file-editor-files"

getItem(store, key, default) ==
    IF key \in DOMAIN store THEN store[key] ELSE default

setItem(store, key, value) ==
    [k \in DOMAIN store \cup {key} |-> IF k = key THEN value ELSE store[k]]

\* setMessages(v) of either variant
SetMessages(v) ==
    /\ messages' = v
    /\ storage' = IF variant = "local" THEN setItem(storage, MessagesKey, v)
                  ELSE storage
    /\ UNCHANGED files

\* setFiles(v) of either variant
SetFiles(v) ==
    /\ files' = v
    /\ storage' = IF variant = "local" THEN setItem(storage, FilesKey, v)
                  ELSE storage
    /\ UNCHANGED messages

KeepLists == UNCHANGED <<messages, files, storage>>

(***************************************************************************)
(* Handlers the two variants share word for word.                          *)
(***************************************************************************)
\* onChange={(e) => setText(e.target.value)}
setText(t) ==
    /\ t # text
    /\ text' = t
    /\ ignored' = ""
    /\ KeepLists /\ Frame
    /\ UNCHANGED <<isLoading, isSyncing, ops, serverVars, nextUuid>>

handleReset ==
    /\ text # ""
    /\ text' = ""
    /\ ignored' = ""
    /\ KeepLists /\ Frame
    /\ UNCHANGED <<isLoading, isSyncing, ops, serverVars, nextUuid>>

(***************************************************************************)
(* Local variant.                                                          *)
(***************************************************************************)
\* reader.readAsDataURL(file)
ReadAsDataURL(file) == "data:" \o file.type \o ";base64," \o file.body

\* The Save button's !text.trim() test repeats the handler's own first
\* statement, so the handler is entered with any text.
handleSaveLocal ==
    /\ variant = "local"
    /\ IF Trim(text) = ""
       THEN /\ ignored' = "save"
            /\ KeepLists
            /\ UNCHANGED <<text, nextUuid>>
       ELSE /\ nextUuid <= MaxId
            /\ SetMessages(Prepend([id |-> Uuid(nextUuid), content |-> Trim(text),
                                    createdAt |-> clock], messages))
            /\ text' = ""
            /\ nextUuid' = nextUuid + 1
            /\ ignored' = ""
    /\ Frame
    /\ UNCHANGED <<isLoading, isSyncing, ops, serverVars>>

handleDeleteMessageLocal(id) ==
    /\ variant = "local"
    /\ id \in IdsOf(messages)
    /\ SetMessages(FilterOutId(messages, id))
    /\ ignored' = ""
    /\ Frame
    /\ UNCHANGED <<text, isLoading, isSyncing, ops, serverVars, nextUuid>>

handleDeleteAllMessagesLocal(confirm) ==
    /\ variant = "local"
    /\ messages # <<>>               \* disabled={messages.length === 0}
    /\ IF confirm
       THEN SetMessages(NoMessages) /\ ignored' = ""
       ELSE KeepLists /\ ignored' = "deleteAllMessages"
    /\ Frame
    /\ UNCHANGED <<text, isLoading, isSyncing, ops, serverVars, nextUuid>>

\* The file input carries no disabled attribute in this variant.
handleFileUploadLocal(batch) ==
    /\ variant = "local"
    /\ isLoading' = TRUE
    /\ Start([NoOp EXCEPT !.kind = "upload", !.pc = "read", !.batch = batch,
                          !.i = 1])
    /\ ignored' = ""
    /\ KeepLists /\ Frame
    /\ UNCHANGED <<text, isSyncing, serverVars, nextUuid>>

\* reader.onload of file i: the record is pushed, and after the last file
\* the batch is put in front of the list
readerOnload(op) ==
    /\ variant = "local"
    /\ op \in ops /\ op.kind = "upload" /\ op.pc = "read"
    /\ nextUuid <= MaxId
    /\ LET file == op.batch[op.i]
           newFiles == Append(op.frows,
                              [id |-> Uuid(nextUuid), name |-> file.name,
                               size |-> file.size, type |-> file.type,
                               data |-> ReadAsDataURL(file), createdAt |-> clock])
       IN  IF op.i < Len(op.batch)
           THEN /\ Step(op, [op EXCEPT !.i = op.i + 1, !.frows = newFiles])
                /\ KeepLists
                /\ UNCHANGED isLoading
           ELSE /\ SetFiles(newFiles \o files)
                /\ isLoading' = FALSE
                /\ Finish(op)
    /\ nextUuid' = nextUuid + 1
    /\ ignored' = ""
    /\ Frame
    /\ UNCHANGED <<text, isSyncing, serverVars>>

handleDeleteFileLocal(id) ==
    /\ variant = "local"
    /\ id \in IdsOf(files)
    /\ SetFiles(FilterOutId(files, id))
    /\ ignored' = ""
    /\ Frame
    /\ UNCHANGED <<text, isLoading, isSyncing, ops, serverVars, nextUuid>>

handleDeleteAllFilesLocal(confirm) ==
    /\ variant = "local"
    /\ files # <<>>                  \* disabled={files.length === 0}
    /\ IF confirm
       THEN SetFiles(NoFiles) /\ ignored' = ""
       ELSE KeepLists /\ ignored' = "deleteAllFiles"
    /\ Frame
    /\ UNCHANGED <<text, isLoading, isSyncing, ops, serverVars, nextUuid>>

\* new Date() moves on between two events of the page
Tick ==
    /\ variant = "local"
    /\ clock < MaxClock
    /\ clock' = clock + 1
    /\ ignored' = ""
    /\ KeepLists /\ Frame
    /\ UNCHANGED <<text, isLoading, isSyncing, ops, dbMessages, dbFiles, blobs,
                   nextId, nextUuid>>

\* The page is loaded again: the component state is built anew from
\* localStorage, and what was suspended is gone with the old page.
ReloadLocal ==
    /\ variant = "local"
    /\ text' = ""
    /\ messages' = getItem(storage, MessagesKey, <<>>)
    /\ files' = getItem(storage, FilesKey, <<>>)
    /\ isLoading' = FALSE
    /\ ops' = {}
    /\ ignored' = ""
    /\ Frame
    /\ UNCHANGED <<storage, isSyncing, serverVars, nextUuid>>

(***************************************************************************)
(* Remote variant: the row store and the bucket.                           *)
(***************************************************************************)
\* .order('created_at', { ascending: false })
RECURSIVE OrderDesc(_)
OrderDesc(rows) ==
    IF rows = {} THEN <<>>
    ELSE LET top == CHOOSE r \in rows : \A q \in rows : q.created_at <= r.created_at
         IN  <<top>> \o OrderDesc(rows \ {top})

\* the id the row store gives its n-th row
RowId(n) == "r" \o ToString(n)

\* supabase.storage.from('files').getPublicUrl(fileName).data.publicUrl
PublicUrl(fileName) ==
    "https://vornmactqtkaisubysau.supabase.co/storage/v1/object/public/files/"
        \o fileName

\* `${crypto.randomUUID()}.${file.name.split('.').pop()}`
StorageName(n, file) == Uuid(n) \o "." \o SplitPop(file.name, ".")

\* a file name cut at the last '.' of the url
FileNameAfterDot(file) == SplitPop(file.url, ".")

\* file.url.split('/').pop()
FileNameOf(file) == SplitPop(file.url, "/")

LoadOp == [NoOp EXCEPT !.kind = "load", !.pc = "select"]

\* supabase.from('messages').select('*').order(...) is answered
selectMessages(op, outcome) ==
    /\ variant = "remote"
    /\ op \in ops /\ op.kind = "load" /\ op.mres = "none"
    /\ Step(op, [op EXCEPT !.mres = outcome,
                           !.mrows = IF outcome = "ok" THEN OrderDesc(dbMessages)
                                     ELSE <<>>])
    /\ ignored' = ""
    /\ KeepLists /\ Frame
    /\ UNCHANGED <<text, isLoading, isSyncing, serverVars, nextUuid>>

\* supabase.from('files').select('*').order(...) is answered
selectFiles(op, outcome) ==
    /\ variant = "remote"
    /\ op \in ops /\ op.kind = "load" /\ op.fres = "none"
    /\ Step(op, [op EXCEPT !.fres = outcome,
                           !.frows = IF outcome = "ok" THEN OrderDesc(dbFiles)
                                     ELSE <<>>])
    /\ ignored' = ""
    /\ KeepLists /\ Frame
    /\ UNCHANGED <<text, isLoading, isSyncing, serverVars, nextUuid>>

\* loadData after its await: Promise.all has settled
loadData(op) ==
    /\ variant = "remote"
    /\ op \in ops /\ op.kind = "load"
    /\ \/ "thrown" \in {op.mres, op.fres}
       \/ op.mres # "none" /\ op.fres # "none"
    /\ IF "thrown" \in {op.mres, op.fres}
       THEN UNCHANGED <<messages, files>>
       ELSE /\ messages' = IF op.mres = "ok" THEN op.mrows ELSE messages
            /\ files' = IF op.fres = "ok" THEN op.frows ELSE files
    /\ isSyncing' = FALSE
    /\ Finish(op)
    /\ ignored' = ""
    /\ Frame
    /\ UNCHANGED <<text, isLoading, storage, serverVars, nextUuid>>

\* The Save button's !text.trim() test repeats the handler's own first
\* statement, so the handler is entered with any text.
handleSaveRemote ==
    /\ variant = "remote"
    /\ ~isLoading                    \* disabled={... || isLoading}
    /\ IF Trim(text) = ""
       THEN /\ ignored' = "save"
            /\ UNCHANGED <<isLoading, ops>>
       ELSE /\ isLoading' = TRUE
            /\ Start([NoOp EXCEPT !.kind = "save", !.pc = "insert", !.text = text])
            /\ ignored' = ""
    /\ KeepLists /\ Frame
    /\ UNCHANGED <<text, isSyncing, serverVars, nextUuid>>

\* .from('messages').insert({ content: text.trim() }).select().single()
insertMessage(op, ok) ==
    /\ variant = "remote"
    /\ op \in ops /\ op.kind = "save" /\ op.mres = "none"
    /\ IF ok
       THEN /\ nextId <= MaxId
            /\ LET row == [id |-> RowId(nextId), content |-> Trim(op.text),
                           created_at |-> clock]
               IN  /\ dbMessages' = dbMessages \cup {row}
                   /\ Step(op, [op EXCEPT !.mres = "ok", !.mrows = <<row>>])
            /\ nextId' = nextId + 1
            /\ clock' = clock + 1
       ELSE /\ Step(op, [op EXCEPT !.mres = "error"])
            /\ UNCHANGED <<dbMessages, nextId, clock>>
    /\ ignored' = ""
    /\ KeepLists /\ Frame
    /\ UNCHANGED <<text, isLoading, isSyncing, dbFiles, blobs, nextUuid>>

\* handleSave after its await
handleSaveDone(op) ==
    /\ variant = "remote"
    /\ op \in ops /\ op.kind = "save" /\ op.mres # "none"
    /\ IF op.mres = "ok"
       THEN SetMessages(Prepend(op.mrows[1], messages)) /\ text' = ""
       ELSE KeepLists /\ UNCHANGED text
    /\ isLoading' = FALSE
    /\ Finish(op)
    /\ ignored' = ""
    /\ Frame
    /\ UNCHANGED <<isSyncing, serverVars, nextUuid>>

handleDeleteMessageRemote(id) ==
    /\ variant = "remote"
    /\ id \in IdsOf(messages)
    /\ Start([NoOp EXCEPT !.kind = "deleteMessage", !.pc = "delete", !.id = id,
                          !.ids = {id}])
    /\ ignored' = ""
    /\ KeepLists /\ Frame
    /\ UNCHANGED <<text, isLoading, isSyncing, serverVars, nextUuid>>

handleDeleteAllMessagesRemote(confirm) ==
    /\ variant = "remote"
    /\ messages # <<>> /\ ~isLoading  \* disabled={messages.length === 0 || isLoading}
    /\ IF confirm
       THEN /\ isLoading' = TRUE
            /\ Start([NoOp EXCEPT !.kind = "deleteAllMessages", !.pc = "delete",
                                  !.ids = IdsOf(messages)])
            /\ ignored' = ""
       ELSE /\ ignored' = "deleteAllMessages"
            /\ UNCHANGED <<isLoading, ops>>
    /\ KeepLists /\ Frame
    /\ UNCHANGED <<text, isSyncing, serverVars, nextUuid>>

\* .from('messages').delete().eq('id', id) / .delete().in('id', ids)
deleteMessageRows(op, ok) ==
    /\ variant = "remote"
    /\ op \in ops /\ op.kind \in {"deleteMessage", "deleteAllMessages"}
    /\ op.mres = "none"
    /\ dbMessages' = IF ok THEN {r \in dbMessages : r.id \notin op.ids}
                     ELSE dbMessages
    /\ Step(op, [op EXCEPT !.mres = IF ok THEN "ok" ELSE "error"])
    /\ ignored' = ""
    /\ KeepLists /\ Frame
    /\ UNCHANGED <<text, isLoading, isSyncing, dbFiles, blobs, nextId, clock,
                   nextUuid>>

\* handleDeleteMessage after its await
handleDeleteMessageDone(op) ==
    /\ variant = "remote"
    /\ op \in ops /\ op.kind = "deleteMessage" /\ op.mres # "none"
    /\ IF Succeeded(op.mres)
       THEN SetMessages(FilterOutId(messages, op.id))
       ELSE KeepLists
    /\ Finish(op)
    /\ ignored' = ""
    /\ Frame
    /\ UNCHANGED <<text, isLoading, isSyncing, serverVars, nextUuid>>

\* handleDeleteAllMessages after its await
handleDeleteAllMessagesDone(op) ==
    /\ variant = "remote"
    /\ op \in ops /\ op.kind = "deleteAllMessages" /\ op.mres # "none"
    /\ IF Succeeded(op.mres) THEN SetMessages(NoMessages) ELSE KeepLists
    /\ isLoading' = FALSE
    /\ Finish(op)
    /\ ignored' = ""
    /\ Frame
    /\ UNCHANGED <<text, isSyncing, serverVars, nextUuid>>

(***************************************************************************)
(* Remote variant: files.                                                  *)
(***************************************************************************)
handleFileUploadRemote(batch) ==
    /\ variant = "remote"
    /\ ~isLoading                    \* disabled={isLoading}
    /\ nextUuid + Len(batch) - 1 <= MaxId
    /\ isLoading' = TRUE
    /\ Start([NoOp EXCEPT !.kind = "upload", !.pc = "upload", !.batch = batch,
                          !.i = 1, !.key = StorageName(nextUuid, batch[1])])
    /\ nextUuid' = nextUuid + 1
    /\ ignored' = ""
    /\ KeepLists /\ Frame
    /\ UNCHANGED <<text, isSyncing, serverVars>>

\* a loop that is left, as by break, at the first file that fails
LoopStopsOnFailure(op, outcome) == outcome = "ok" /\ op.i < Len(op.batch)

\* whether the for loop has a file left after file op.i, whose outcome is given
LoopGoesOn(op, outcome) == op.i < Len(op.batch)

\* the end of one pass of the for loop: the next file's upload is sent, or
\* the loop is left and setIsLoading(false) runs
EndOfPass(op, outcome) ==
    IF LoopGoesOn(op, outcome)
    THEN /\ Step(op, [op EXCEPT !.i = op.i + 1, !.pc = "upload",
                                !.key = StorageName(nextUuid, op.batch[op.i + 1]),
                                !.fres = "none", !.frows = <<>>,
                                !.log = Append(op.log, outcome)])
         /\ nextUuid' = nextUuid + 1
         /\ UNCHANGED isLoading
    ELSE /\ Finish(op)
         /\ isLoading' = FALSE
         /\ UNCHANGED nextUuid

\* a loop that sends the next file's upload as soon as the blob is stored,
\* without the row insert
uploadSettledNoAwait(op, ok) ==
    /\ variant = "remote"
    /\ op \in ops /\ op.kind = "upload" /\ op.pc = "upload"
    /\ blobs' = IF ok THEN blobs \cup {op.key} ELSE blobs
    /\ EndOfPass(op, IF ok THEN "ok" ELSE "uploadError")
    /\ ignored' = ""
    /\ KeepLists /\ Frame
    /\ UNCHANGED <<text, isSyncing, dbMessages, dbFiles, nextId, clock>>

\* supabase.storage.from('files').upload(fileName, file) settles, with the
\* blob stored or with an uploadError, and handleFileUpload goes on: continue
\* on an uploadError, else the row insert is sent.  Nothing but this handler
\* reads the bucket's answer, so answer and continuation are one step.
uploadSettled(op, ok) ==
    /\ variant = "remote"
    /\ op \in ops /\ op.kind = "upload" /\ op.pc = "upload"
    /\ IF ok
       THEN /\ blobs' = blobs \cup {op.key}
            /\ Step(op, [op EXCEPT !.pc = "insert"])
            /\ UNCHANGED <<isLoading, nextUuid>>
       ELSE /\ EndOfPass(op, "uploadError")
            /\ UNCHANGED blobs
    /\ ignored' = ""
    /\ KeepLists /\ Frame
    /\ UNCHANGED <<text, isSyncing, dbMessages, dbFiles, nextId, clock>>

\* .from('files').insert({ name, size, type, url }).select().single()
insertFile(op, ok) ==
    /\ variant = "remote"
    /\ op \in ops /\ op.kind = "upload" /\ op.pc = "insert" /\ op.fres = "none"
    /\ IF ok
       THEN /\ nextId <= MaxId
            /\ LET file == op.batch[op.i]
                   row == [id |-> RowId(nextId), name |-> file.name,
                           size |-> file.size, type |-> file.type,
                           url |-> PublicUrl(op.key), created_at |-> clock]
               IN  /\ dbFiles' = dbFiles \cup {row}
                   /\ Step(op, [op EXCEPT !.fres = "ok", !.frows = <<row>>])
            /\ nextId' = nextId + 1
            /\ clock' = clock + 1
       ELSE /\ Step(op, [op EXCEPT !.fres = "error"])
            /\ UNCHANGED <<dbFiles, nextId, clock>>
    /\ ignored' = ""
    /\ KeepLists /\ Frame
    /\ UNCHANGED <<text, isLoading, isSyncing, dbMessages, blobs, nextUuid>>

\* handleFileUpload after the insert's await
insertSettled(op) ==
    /\ variant = "remote"
    /\ op \in ops /\ op.kind = "upload" /\ op.pc = "insert" /\ op.fres # "none"
    /\ IF op.fres = "ok"
       THEN SetFiles(Prepend(op.frows[1], files)) /\ EndOfPass(op, "ok")
       ELSE KeepLists /\ EndOfPass(op, "insertError")
    /\ ignored' = ""
    /\ Frame
    /\ UNCHANGED <<text, isSyncing, serverVars>>

handleDeleteFileRemote(file) ==
    /\ variant = "remote"
    /\ \E k \in 1..Len(files) : files[k] = file
    /\ LET fileName == FileNameOf(file)
       IN  Start([NoOp EXCEPT !.kind = "deleteFile", !.id = file.id,
                              !.ids = {file.id},
                              !.pc = IF fileName # "" THEN "remove" ELSE "delete",
                              !.keys = IF fileName # "" THEN {fileName} ELSE {}])
    /\ ignored' = ""
    /\ KeepLists /\ Frame
    /\ UNCHANGED <<text, isLoading, isSyncing, serverVars, nextUuid>>

handleDeleteAllFilesRemote(confirm) ==
    /\ variant = "remote"
    /\ files # <<>> /\ ~isLoading     \* disabled={files.length === 0 || isLoading}
    /\ IF confirm
       THEN /\ isLoading' = TRUE
            /\ LET fileNames == {FileNameOf(files[k]) : k \in 1..Len(files)} \ {""}
               IN  Start([NoOp EXCEPT !.kind = "deleteAllFiles",
                                      !.ids = IdsOf(files),
                                      !.pc = IF fileNames # {} THEN "remove"
                                             ELSE "delete",
                                      !.keys = fileNames])
            /\ ignored' = ""
       ELSE /\ ignored' = "deleteAllFiles"
            /\ UNCHANGED <<isLoading, ops>>
    /\ KeepLists /\ Frame
    /\ UNCHANGED <<text, isSyncing, serverVars, nextUuid>>

\* supabase.storage.from('files').remove(fileNames) settles, with the blobs
\* removed or not, and the handler, which does not read the answer, sends the
\* row delete
removeSettled(op, ok) ==
    /\ variant = "remote"
    /\ op \in ops /\ op.kind \in {"deleteFile", "deleteAllFiles"}
    /\ op.pc = "remove"
    /\ blobs' = IF ok THEN blobs \ op.keys ELSE blobs
    /\ Step(op, [op EXCEPT !.pc = "delete"])
    /\ ignored' = ""
    /\ KeepLists /\ Frame
    /\ UNCHANGED <<text, isLoading, isSyncing, dbMessages, dbFiles, nextId, clock,
                   nextUuid>>

\* .from('files').delete().eq('id', file.id) / .delete().in('id', ids)
deleteFileRows(op, ok) ==
    /\ variant = "remote"
    /\ op \in ops /\ op.kind \in {"deleteFile", "deleteAllFiles"}
    /\ op.pc = "delete" /\ op.fres = "none"
    /\ dbFiles' = IF ok THEN {r \in dbFiles : r.id \notin op.ids} ELSE dbFiles
    /\ Step(op, [op EXCEPT !.fres = IF ok THEN "ok" ELSE "error"])
    /\ ignored' = ""
    /\ KeepLists /\ Frame
    /\ UNCHANGED <<text, isLoading, isSyncing, dbMessages, blobs, nextId, clock,
                   nextUuid>>

\* handleDeleteFile after the delete's await
handleDeleteFileDone(op) ==
    /\ variant = "remote"
    /\ op \in ops /\ op.kind = "deleteFile" /\ op.pc = "delete" /\ op.fres # "none"
    /\ IF Succeeded(op.fres) THEN SetFiles(FilterOutId(files, op.id)) ELSE KeepLists
    /\ Finish(op)
    /\ ignored' = ""
    /\ Frame
    /\ UNCHANGED <<text, isLoading, isSyncing, serverVars, nextUuid>>

\* handleDeleteAllFiles after the delete's await
handleDeleteAllFilesDone(op) ==
    /\ variant = "remote"
    /\ op \in ops /\ op.kind = "deleteAllFiles" /\ op.pc = "delete"
    /\ op.fres # "none"
    /\ IF Succeeded(op.fres) THEN SetFiles(NoFiles) ELSE KeepLists
    /\ isLoading' = FALSE
    /\ Finish(op)
    /\ ignored' = ""
    /\ Frame
    /\ UNCHANGED <<text, isSyncing, serverVars, nextUuid>>

\* The page is loaded again: the component mounts with its initial state and
\* the effect calls loadData; what was suspended is gone with the old page.
ReloadRemote ==
    /\ variant = "remote"
    /\ text' = ""
    /\ messages' = <<>>
    /\ files' = <<>>
    /\ isLoading' = FALSE
    /\ isSyncing' = TRUE
    /\ ops' = {LoadOp}
    /\ ignored' = ""
    /\ Frame
    /\ UNCHANGED <<storage, serverVars, nextUuid>>

(***************************************************************************)
(* The editor: the state after the component has mounted, and its steps.   *)
(***************************************************************************)
Init ==
    /\ variant \in {"remote", "local"}
    /\ text = ""
    /\ storage = [k \in {} |-> <<>>]
    /\ messages = getItem(storage, MessagesKey, <<>>)
    /\ files = getItem(storage, FilesKey, <<>>)
    /\ isLoading = FALSE
    /\ isSyncing = (variant = "remote")
    /\ ops = IF variant = "remote" THEN {LoadOp} ELSE {}
    /\ dbMessages = {}
    /\ dbFiles = {}
    /\ blobs = {}
    /\ nextId = 1
    /\ nextUuid = 1
    /\ clock = 1
    /\ ignored = ""
    /\ bytes = 0
    /\ formatted = ""

TextNext ==
    \/ \E t \in Texts : setText(t)
    \/ handleReset

LocalMessagesNext ==
    \/ handleSaveLocal
    \/ \E id \in IdsOf(messages) : handleDeleteMessageLocal(id)
    \/ \E confirm \in BOOLEAN : handleDeleteAllMessagesLocal(confirm)

LocalFilesNext ==
    \/ \E batch \in Batches : handleFileUploadLocal(batch)
    \/ \E op \in ops : readerOnload(op)
    \/ \E id \in IdsOf(files) : handleDeleteFileLocal(id)
    \/ \E confirm \in BOOLEAN : handleDeleteAllFilesLocal(confirm)

LocalPageNext ==
    \/ Tick
    \/ ReloadLocal

RemotePageNext ==
    \/ \E op \in ops, outcome \in {"ok", "error", "thrown"} : selectMessages(op, outcome)
    \/ \E op \in ops, outcome \in {"ok", "error", "thrown"} : selectFiles(op, outcome)
    \/ \E op \in ops : loadData(op)
    \/ ReloadRemote

RemoteMessagesNext ==
    \/ handleSaveRemote
    \/ \E op \in ops, ok \in BOOLEAN : insertMessage(op, ok)
    \/ \E op \in ops : handleSaveDone(op)
    \/ \E id \in IdsOf(messages) : handleDeleteMessageRemote(id)
    \/ \E confirm \in BOOLEAN : handleDeleteAllMessagesRemote(confirm)
    \/ \E op \in ops, ok \in BOOLEAN : deleteMessageRows(op, ok)
    \/ \E op \in ops : handleDeleteMessageDone(op)
    \/ \E op \in ops : handleDeleteAllMessagesDone(op)

RemoteFilesNext ==
    \/ \E batch \in Batches : handleFileUploadRemote(batch)
    \/ \E op \in ops, ok \in BOOLEAN : uploadSettled(op, ok)
    \/ \E op \in ops, ok \in BOOLEAN : insertFile(op, ok)
    \/ \E op \in ops : insertSettled(op)
    \/ \E k \in 1..Len(files) : handleDeleteFileRemote(files[k])
    \/ \E confirm \in BOOLEAN : handleDeleteAllFilesRemote(confirm)
    \/ \E op \in ops, ok \in BOOLEAN : removeSettled(op, ok)
    \/ \E op \in ops, ok \in BOOLEAN : deleteFileRows(op, ok)
    \/ \E op \in ops : handleDeleteFileDone(op)
    \/ \E op \in ops : handleDeleteAllFilesDone(op)

\* Either editor, with every handler.
Next ==
    \/ TextNext
    \/ LocalMessagesNext \/ LocalFilesNext \/ LocalPageNext
    \/ RemotePageNext \/ RemoteMessagesNext \/ RemoteFilesNext

Spec == Init /\ [][Next]_vars

\* The local editor, with every handler.
LocalNext == TextNext \/ LocalMessagesNext \/ LocalFilesNext \/ LocalPageNext

InitLocal == Init /\ variant = "local"

SpecLocal == InitLocal /\ [][LocalNext]_vars

\* The remote editor, with every handler.
RemoteNext == TextNext \/ RemotePageNext \/ RemoteMessagesNext \/ RemoteFilesNext

InitRemote == Init /\ variant = "remote"

SpecRemote == InitRemote /\ [][RemoteNext]_vars

\* Either editor, its user working with the messages only.
MessagesNext ==
    \/ TextNext
    \/ LocalMessagesNext \/ LocalPageNext
    \/ RemotePageNext \/ RemoteMessagesNext

SpecMessages == Init /\ [][MessagesNext]_vars

\* Either editor, its user working with the files only.
FilesNext ==
    \/ LocalFilesNext \/ LocalPageNext
    \/ RemotePageNext \/ RemoteFilesNext

SpecFiles == Init /\ [][FilesNext]_vars

(***************************************************************************)
(* formatFileSize on its own: an argument is drawn, then the call is made. *)
(***************************************************************************)
\* the sizes where the unit or the rounded digit changes
Boundaries == {0, KB, KB + KB \div 4, MB - 52, MB, 2 * MB}

SizeInputs ==
    {n \in UNION {(b - MaxDelta)..(b + MaxDelta) : b \in Boundaries} : n >= 0}

InitFormat ==
    /\ variant \in {"remote", "local"}
    /\ text = ""
    /\ storage = [k \in {} |-> <<>>]
    /\ messages = <<>>
    /\ files = <<>>
    /\ isLoading = FALSE
    /\ isSyncing = (variant = "remote")
    /\ ops = IF variant = "remote" THEN {LoadOp} ELSE {}
    /\ dbMessages = {}
    /\ dbFiles = {}
    /\ blobs = {}
    /\ nextId = 1
    /\ nextUuid = 1
    /\ clock = 1
    /\ ignored = ""
    /\ bytes \in SizeInputs
    /\ formatted = ""

\* {formatFileSize(file.size)} in the file card
CallFormatFileSize ==
    /\ formatted = ""
    /\ formatted' = formatFileSize(bytes)
    /\ UNCHANGED <<bytes, editorVars>>

SpecFormat == InitFormat /\ [][CallFormatFileSize]_vars

(***************************************************************************)
(* Properties.  The ones about what a handler does are stated of the steps *)
(* the handler takes: [][A => P]_vars says that every step of A has P.     *)
(***************************************************************************)
\* s is empty or holds white space only
IsBlank(s) == \A i \in 1..Len(s) : CharAt(s, i) \in WhiteSpace

\* new is old with one entry, of content T, put in front
AddedInFront(old, new, T) ==
    /\ Len(new) = Len(old) + 1
    /\ new[1].content = T
    /\ \A j \in 1..Len(old) : new[j + 1] = old[j]

\* new is old without its entries of the given id, the others in their order
RemovedExactly(old, new, id) ==
    LET kept == {j \in 1..Len(old) : old[j].id # id}
        KthKept(k) == CHOOSE j \in kept : Cardinality({x \in kept : x <= j}) = k
    IN  /\ Len(new) = Cardinality(kept)
        /\ \A k \in 1..Len(new) : new[k] = old[KthKept(k)]
        /\ id \notin IdsOf(old) => new = old

\* C1: a save of a text whose trimmed form T is not empty (remote: whose
\* insert succeeded) adds one message, of content T, at the front of the
\* list, and the messages listed before keep their order behind it.
SaveAddsOneInFront ==
    [][ /\ (handleSaveLocal /\ ~IsBlank(text))
            => (Trim(text) # "" /\ AddedInFront(messages, messages', Trim(text)))
        /\ \A op \in ops :
            (handleSaveDone(op) /\ op.mres = "ok")
            => (Trim(op.text) # "" /\ AddedInFront(messages, messages', Trim(op.text)))
      ]_vars

\* a save has put a second message, its text trimmed, in front of a first
SaveAddsOneInFrontWitness ==
    /\ Len(messages) = 2
    /\ messages[1].content = "a b"
    /\ messages[1].id # messages[2].id
    /\ text = ""

\* C2: a save of an empty or white-space-only text leaves the message list
\* and the input text as they are and sends nothing to the row store or to
\* localStorage.
SaveBlankChangesNothing ==
    [][ ((handleSaveLocal \/ handleSaveRemote) /\ IsBlank(text))
        => /\ messages' = messages
           /\ text' = text
           /\ ops' = ops
           /\ storage' = storage
           /\ dbMessages' = dbMessages /\ dbFiles' = dbFiles /\ blobs' = blobs
      ]_vars

\* handleSave has returned at its first statement on a white-space-only text
SaveBlankChangesNothingWitness ==
    /\ ignored = "save"
    /\ text = " "
    /\ messages # <<>>

\* C3: a delete of a message (remote: whose row delete reported no error)
\* removes the entries of that id and no other, the others keeping their
\* order; with no entry of that id listed, the list stays as it is.
DeleteRemovesExactlyThat ==
    [][ /\ \A id \in IdsOf(messages) :
            handleDeleteMessageLocal(id) => RemovedExactly(messages, messages', id)
        /\ \A op \in ops :
            (handleDeleteMessageDone(op) /\ op.mres = "ok")
            => RemovedExactly(messages, messages', op.id)
      ]_vars

\* the row of the second of two listed messages is deleted and the handler
\* is about to take it off the list
DeleteRemovesExactlyThatWitness ==
    /\ Len(messages) = 2
    /\ \E op \in ops :
        /\ op.kind = "deleteMessage" /\ op.mres = "ok"
        /\ op.id = messages[2].id
        /\ op.id # messages[1].id

\* C4 as it was claimed: once the confirmation is accepted the message list
\* ends empty, and a declined confirmation changes nothing and sends no
\* delete.
DeleteAllAlwaysEmpties ==
    [][ /\ handleDeleteAllMessagesLocal(TRUE) => messages' = <<>>
        /\ \A op \in ops : handleDeleteAllMessagesDone(op) => messages' = <<>>
        /\ (handleDeleteAllMessagesLocal(FALSE) \/ handleDeleteAllMessagesRemote(FALSE))
            => (messages' = messages /\ ops' = ops /\ storage' = storage
                /\ dbMessages' = dbMessages)
      ]_vars

\* C4, amended: once the confirmation is accepted the message list ends
\* empty, in the remote variant when the row delete reports no error; a
\* declined confirmation changes nothing and sends no delete.
DeleteAllEmptiesOnSuccess ==
    [][ /\ handleDeleteAllMessagesLocal(TRUE) => messages' = <<>>
        /\ \A op \in ops :
            (handleDeleteAllMessagesDone(op) /\ op.mres = "ok") => messages' = <<>>
        /\ (handleDeleteAllMessagesLocal(FALSE) \/ handleDeleteAllMessagesRemote(FALSE))
            => (messages' = messages /\ ops' = ops /\ storage' = storage
                /\ dbMessages' = dbMessages)
      ]_vars

\* the rows of two listed messages are deleted in one call and the handler
\* is about to clear the list
DeleteAllEmptiesOnSuccessWitness ==
    /\ Len(messages) = 2
    /\ \E op \in ops :
        /\ op.kind = "deleteAllMessages" /\ op.mres = "ok"
        /\ op.ids = IdsOf(messages)
        /\ Cardinality(op.ids) = 2

\* how often outcome x stands in log
CountOf(log, x) == Cardinality({j \in 1..Len(log) : log[j] = x})

\* the pass of the upload loop for file op.i ends with the given outcome:
\* with a file left the handler goes on to it, and after the last file every
\* file of the batch has had its pass, so that a batch with F <= 1 failed
\* blob uploads and no failed insert has made N - F entries
PassEnds(op, outcome) ==
    LET log == Append(op.log, outcome)
    IN  IF op.i < Len(op.batch)
        THEN \E next \in ops' :
                /\ next.kind = "upload" /\ next.pc = "upload"
                /\ next.batch = op.batch /\ next.i = op.i + 1
                /\ next.log = log
        ELSE /\ Len(log) = Len(op.batch)
             /\ isLoading' = FALSE
             /\ (CountOf(log, "uploadError") <= 1 /\ CountOf(log, "insertError") = 0)
                 => CountOf(log, "ok") = Len(op.batch) - CountOf(log, "uploadError")

\* C5: in a remote upload batch a file whose blob upload fails adds nothing
\* and the files after it are still uploaded and inserted; each file that is
\* uploaded and inserted adds one entry, in front, whose url no other row
\* has; so a batch of N files with F <= 1 failed uploads and no other
\* failure adds N - F entries.
UploadAddsEachUploadedFile ==
    [][ \A op \in ops :
        /\ uploadSettled(op, FALSE)
            => (files' = files /\ PassEnds(op, "uploadError"))
        /\ (insertSettled(op) /\ op.fres = "ok")
            => /\ Len(files') = Len(files) + 1
               /\ \A j \in 1..Len(files) : files'[j + 1] = files[j]
               /\ files'[1].name = op.batch[op.i].name
               /\ \A j \in 1..Len(files) :
                    files[j].id # files'[1].id => files[j].url # files'[1].url
               /\ \A r \in dbFiles : r.id # files'[1].id => r.url # files'[1].url
               /\ PassEnds(op, "ok")
      ]_vars

\* the first file of a batch of two failed to upload, and the second one is
\* uploaded and its row inserted
UploadAddsEachUploadedFileWitness ==
    \E op \in ops :
        /\ op.kind = "upload" /\ Len(op.batch) = 2 /\ op.i = 2
        /\ op.log = <<"uploadError">>
        /\ op.pc = "insert" /\ op.fres = "ok"

\* C6: in the local variant the lists stored under the two keys are the
\* lists in memory, so that loading the page again gives the same message
\* and file lists, in the same order.
StorageMirrorsLists ==
    /\ [](variant = "local" =>
            /\ IF "khos-file-editor-messages" \in DOMAIN storage
               THEN storage["khos-file-editor-messages"] = messages
               ELSE messages = <<>>
            /\ IF "khos-file-editor-files" \in DOMAIN storage
               THEN storage["khos-file-editor-files"] = files
               ELSE files = <<>>)
    /\ [][ReloadLocal => (messages' = messages /\ files' = files)]_vars

\* a message and a file are listed and stored
StorageMirrorsListsWitness ==
    /\ variant = "local"
    /\ Len(messages) = 1 /\ Len(files) = 1
    /\ DOMAIN storage = {"khos-file-editor-messages", "khos-file-editor-files"}
    /\ storage["khos-file-editor-files"] = files

\* the bucket's keys that hold the payload of the file of the given id
PayloadKeys(bucket, id) ==
    {k \in bucket :
        \/ \E r \in dbFiles : r.id = id /\ r.url = PublicUrl(k)
        \/ \E j \in 1..Len(files) : files[j].id = id /\ files[j].url = PublicUrl(k)}

\* C7 as it was claimed: when a delete of a file has completed, neither its
\* row or record nor its payload is in storage, and it is not listed.
DeleteFileDestroysBoth ==
    [][ /\ \A op \in ops :
            handleDeleteFileDone(op)
            => /\ \A r \in dbFiles' : r.id # op.id
               /\ PayloadKeys(blobs', op.id) = {}
               /\ op.id \notin IdsOf(files')
        /\ \A id \in IdsOf(files) :
            handleDeleteFileLocal(id)
            => /\ id \notin IdsOf(files')
               /\ id \notin IdsOf(storage'["khos-file-editor-files"])
      ]_vars

\* C7, amended: a delete of a file whose calls succeed leaves neither its
\* payload (gone when the blob removal succeeds) nor its row or record (gone
\* from the store and from the list when the row delete reports no error),
\* and a later load does not list it; the blob removal's failure is not
\* read, and a failed row delete leaves the file listed.
DeleteFileDestroysWhatSucceeds ==
    [][ /\ \A op \in ops :
            /\ (removeSettled(op, TRUE) /\ op.kind = "deleteFile")
                => PayloadKeys(blobs', op.id) = {}
            /\ (handleDeleteFileDone(op) /\ op.fres = "ok")
                => /\ \A r \in dbFiles' : r.id # op.id
                   /\ op.id \notin IdsOf(files')
            /\ (handleDeleteFileDone(op) /\ op.fres = "error")
                => files' = files
            /\ selectFiles(op, "ok")
                => \A got \in ops' \ ops : \A j \in 1..Len(got.frows) :
                       got.frows[j] \in dbFiles
        /\ \A id \in IdsOf(files) :
            handleDeleteFileLocal(id)
            => /\ id \notin IdsOf(files')
               /\ id \notin IdsOf(storage'["khos-file-editor-files"])
      ]_vars

\* a listed file's blob is removed and its row deleted, and the handler is
\* about to take it off the list
DeleteFileDestroysWhatSucceedsWitness ==
    \E op \in ops :
        /\ op.kind = "deleteFile" /\ op.pc = "delete" /\ op.fres = "ok"
        /\ op.id \in IdsOf(files)
        /\ PayloadKeys(blobs, op.id) = {}
        /\ op.keys # {}
        /\ \A r \in dbFiles : r.id # op.id

\* s is n / unit written with one decimal, the nearest one, and the suffix
IsOneDecimalOf(s, n, unit, suffix) ==
    \E t \in ((10 * n) \div unit)..((10 * n) \div unit + 1) :
        /\ s = ToString(t \div 10) \o "." \o ToString(t % 10) \o suffix
        /\ 2 * (10 * n - t * unit) <= unit
        /\ 2 * (t * unit - 10 * n) <= unit

\* C8: formatFileSize, in both variants, writes a count below 1024 in B,
\* one from 1024 and below 1048576 in KB with one decimal, and any other in
\* MB with one decimal; 1023 gives "1023 B", 1024 gives "1.0 KB" and
\* 1048576 gives "1.0 MB".
FormatFileSizeUnits ==
    formatted # "" =>
        /\ bytes < 1024 => formatted = ToString(bytes) \o " B"
        /\ (1024 <= bytes /\ bytes < 1048576)
            => IsOneDecimalOf(formatted, bytes, 1024, " KB")
        /\ bytes >= 1048576 => IsOneDecimalOf(formatted, bytes, 1048576, " MB")
        /\ bytes = 1023 => formatted = "1023 B"
        /\ bytes = 1024 => formatted = "1.0 KB"
        /\ bytes = 1048576 => formatted = "1.0 MB"

\* the remote variant has formatted the first count written in KB
FormatFileSizeUnitsWitness ==
    variant = "remote" /\ bytes = 1024 /\ formatted = "1.0 KB"

\* C9: in every reachable state, of both variants, the message list and the
\* file list are ordered newest first, by creation timestamp descending.
NewestFirst ==
    /\ \A i, j \in 1..Len(messages) :
          i < j => (IF variant = "remote"
                    THEN messages[i].created_at >= messages[j].created_at
                    ELSE messages[i].createdAt >= messages[j].createdAt)
    /\ \A i, j \in 1..Len(files) :
          i < j => (IF variant = "remote"
                    THEN files[i].created_at >= files[j].created_at
                    ELSE files[i].createdAt >= files[j].createdAt)

\* C10: in the remote variant a save whose insert fails leaves the text and
\* the message list as they are, and a delete of a message, of all
\* messages, of a file or of all files whose row delete reports an error
\* leaves its list as it is: no step of such an operation changes the list.
FailureLeavesStateUnchanged ==
    [][ \A op \in ops :
        /\ (handleSaveDone(op) /\ op.mres = "error")
            => (text' = text /\ messages' = messages)
        /\ insertMessage(op, FALSE) => (text' = text /\ messages' = messages)
        /\ (handleDeleteMessageDone(op) /\ op.mres = "error")
            => messages' = messages
        /\ (handleDeleteAllMessagesDone(op) /\ op.mres = "error")
            => messages' = messages
        /\ deleteMessageRows(op, FALSE) => messages' = messages
        /\ (handleDeleteFileDone(op) /\ op.fres = "error") => files' = files
        /\ (handleDeleteAllFilesDone(op) /\ op.fres = "error") => files' = files
        /\ deleteFileRows(op, FALSE) => files' = files
        /\ (removeSettled(op, TRUE) \/ removeSettled(op, FALSE)) => files' = files
      ]_vars

\* the row delete of a listed message has reported an error, and the handler
\* is about to go on
FailureLeavesStateUnchangedWitness ==
    \E op \in ops :
        /\ op.kind = "deleteMessage" /\ op.mres = "error"
        /\ op.id \in IdsOf(messages)
        /\ \E r \in dbMessages : r.id = op.id

\* C11: in a remote upload batch the blob upload of file i+1 starts only in
\* the step in which file i is skipped (its upload failed, nothing stored)
\* or in which its row insert has resolved; a row that was inserted is put
\* in front of the list by itself, while the batch is still in flight when
\* it has a file left; so the row of a later file stands in front of the
\* row of an earlier file: the batch is listed in reverse array order.
UploadsOneAtATimeInOrder ==
    [][ /\ \A next \in ops' \ ops :
            (next.kind = "upload" /\ next.pc = "upload" /\ next.i > 1)
            => \E op \in ops \ ops' :
                /\ op.kind = "upload" /\ op.batch = next.batch
                /\ op.i = next.i - 1
                /\ \/ op.pc = "upload" /\ blobs' = blobs /\ files' = files
                   \/ op.pc = "insert" /\ op.fres # "none"
        /\ \A op \in ops :
            (insertSettled(op) /\ op.fres = "ok")
            => /\ files' = <<op.frows[1]>> \o files
               /\ op.i < Len(op.batch)
                   => \E next \in ops' : next.kind = "upload" /\ next.i = op.i + 1
               /\ (/\ op.i > 1 /\ op.log[op.i - 1] = "ok" /\ files # <<>>
                   /\ files[1].name = op.batch[op.i - 1].name
                   /\ files[1].created_at < op.frows[1].created_at)
                   => /\ files'[1].name = op.batch[op.i].name
                      /\ files'[2].name = op.batch[op.i - 1].name
      ]_vars

\* a batch of two is partially added: the first file's row is listed and
\* the second file's row is inserted and about to be put in front of it
UploadsOneAtATimeInOrderWitness ==
    \E op \in ops :
        /\ op.kind = "upload" /\ Len(op.batch) = 2 /\ op.i = 2
        /\ op.log = <<"ok">> /\ op.pc = "insert" /\ op.fres = "ok"
        /\ Len(files) = 1 /\ files[1].name = op.batch[1].name
        /\ files[1].created_at < op.frows[1].created_at
        /\ isLoading

\* C12: in every reachable state, of both variants, no two entries of the
\* message list have the same id and no two entries of the file list have
\* the same id.
UniqueIds ==
    /\ \A i, j \in 1..Len(messages) : i # j => messages[i].id # messages[j].id
    /\ \A i, j \in 1..Len(files) : i # j => files[i].id # files[j].id

\* C13: in the remote variant a listed message whose row is still in the
\* table stays listed in the next state of the same page, whatever step is
\* taken: a saved message that was not deleted is not lost from the list.
NoLostSave ==
    [][ (variant = "remote" /\ ~ReloadRemote)
        => \A k \in 1..Len(messages) :
              messages[k] \in dbMessages'
              => \E j \in 1..Len(messages') : messages'[j] = messages[k]
      ]_vars

\* the invocations in flight of the handlers that set isLoading
LoadingOps ==
    {op \in ops : op.kind \in {"upload", "save", "deleteAllMessages",
                               "deleteAllFiles"}}

\* C14: in every reachable state, of both variants, isLoading is true
\* exactly when an upload batch, or in the remote variant a save, a delete
\* of all messages or a delete of all files, is in flight, and at most one
\* such operation is in flight.
IsLoadingAccurate ==
    /\ isLoading = (LoadingOps # {})
    /\ Cardinality(LoadingOps) <= 1

=============================================================================
